---------------------------- MODULE Spec2Model ----------------------------
(***************************************************************************)
(* A model of parse.py, the Metasys export parser: the Value and Name      *)
(* Normalizers, the Table Builder (parse), the Day Bucketer (group_key),    *)
(* the Summarizer (summarize), the Output Writer (save_df) and the script   *)
(* body that chains them.                                                   *)
(*                                                                          *)
(* Representation.                                                          *)
(*  - A string is the sequence of its characters; a variable name is the    *)
(*    sequence of its "."-separated segments.                               *)
(*  - A float is a one-element sequence <<x>>, x counted in units of        *)
(*    10^-MaxLen; np.nan is the empty sequence.  An absent label (np.nan    *)
(*    returned by drop_prefix) is the empty sequence too.                   *)
(*  - A timestamp string "dd/mm/2020 HH:MM" is the tuple of its zero-padded *)
(*    fields in text order, <<dd, mm, HH, MM>>; its text order is the       *)
(*    lexicographic order of that tuple.  A datetime is a number of seconds *)
(*    since 2020-01-01 00:00, a date the number of days since 2020-01-01.   *)
(*  - A DataFrame is [index, columns, data], data a sequence of rows.       *)
(***************************************************************************)
EXTENDS Integers, Sequences, FiniteSets, TLC

VARIABLES pc, input_file, args, transformed, start_time, end_time,
          df, subset, key, ret, raised, output

vars == <<pc, input_file, args, transformed, start_time, end_time,
          df, subset, key, ret, raised, output>>

\* ------------------------------------------------------------- bounds

\* Longest value string of the Value Normalizer's inputs.
MaxLen == 4

\* Most rows of an arbitrary raw export.
MaxRows == 3

\* Number of calendar days the Day Bucketer's timestamps are drawn from.
NumDays == 2

\* ------------------------------------------------------------ helpers

\* None, an absent argument or an unset variable.
None == <<>>

NaN == <<>>

Float(x) == <<x>>

isnan(v) == v = NaN

SetMax(S) == CHOOSE m \in S : \A y \in S : y <= m

SetMin(S) == CHOOSE m \in S : \A y \in S : m <= y

Range(s) == {s[i] : i \in 1..Len(s)}

RECURSIVE Pow10(_)
Pow10(n) == IF n = 0 THEN 1 ELSE 10 * Pow10(n - 1)

\* One float unit: 1.0 is Float(Unit).
Unit == Pow10(MaxLen)

\* Lexicographic order of two tuples of numbers of the same length.
RECURSIVE TupleLess(_, _)
TupleLess(a, b) ==
    IF a = <<>> \/ b = <<>> THEN FALSE
    ELSE IF Head(a) # Head(b) THEN Head(a) < Head(b)
    ELSE TupleLess(Tail(a), Tail(b))

\* ------------------------------------------------------ Value Normalizer

Digits == <<"0", "1", "2", "3", "4", "5", "6", "7", "8", "9">>

Letters == {"a", "b", "c", "d", "e", "f", "g", "h", "i", "j", "k", "l", "m",
            "n", "o", "p", "q", "r", "s", "t", "u", "v", "w", "x", "y", "z",
            "A", "B", "C", "D", "E", "F", "G", "H", "I", "J", "K", "L", "M",
            "N", "O", "P", "Q", "R", "S", "T", "U", "V", "W", "X", "Y", "Z"}

IsDigit(c) == c \in Range(Digits)

IsLetter(c) == c \in Letters

DigitVal(c) == (CHOOSE i \in 1..Len(Digits) : Digits[i] = c) - 1

AllDigits(s) == \A i \in 1..Len(s) : IsDigit(s[i])

AllLetters(s) == \A i \in 1..Len(s) : IsLetter(s[i])

\* int() of a string of digits ("" counts 0).
RECURSIVE IntOf(_)
IntOf(s) ==
    IF s = <<>> THEN 0
    ELSE 10 * IntOf(SubSeq(s, 1, Len(s) - 1)) + DigitVal(s[Len(s)])

\* float() of a string matched by \d*\.?\d+ .
float(g) ==
    LET dots == {i \in 1..Len(g) : g[i] = "."}
        p    == IF dots = {} THEN Len(g) + 1 ELSE SetMin(dots)
        int  == SubSeq(g, 1, p - 1)
        frac == SubSeq(g, p + 1, Len(g))
    IN  Float(IntOf(int) * Unit + IntOf(frac) * Pow10(MaxLen - Len(frac)))

\* Whether value, from position c on, is " ?[a-zA-Z]*" up to the end (\Z).
units_follow(value, c) ==
    \E d \in {c, c + 1} :
        /\ d <= Len(value)
        /\ d = c \/ value[d] = " "
        /\ AllLetters(SubSeq(value, d + 1, Len(value)))

\* The pattern with its last \d+ weakened to \d*, the number still holding a
\* digit: "12." matches too.
group_ends_TrailingPoint(value) ==
    {c \in 1..Len(value) :
        /\ \E a \in 0..c : \E b \in {a, a + 1} :
            /\ b <= c
            /\ a + (c - b) >= 1
            /\ AllDigits(SubSeq(value, 1, a))
            /\ b = a \/ value[b] = "."
            /\ AllDigits(SubSeq(value, b + 1, c))
        /\ units_follow(value, c)}

\* The ends c of group 1 in the matches of  \A(\d*\.?\d+) ?[a-zA-Z]*\Z  on
\* value: \d* ends at a, \.? at b, \d+ at c, and the units follow.
group_ends(value) ==
    {c \in 1..Len(value) :
        /\ \E a \in 0..(c - 1) : \E b \in {a, a + 1} :
            /\ b < c
            /\ AllDigits(SubSeq(value, 1, a))
            /\ b = a \/ value[b] = "."
            /\ AllDigits(SubSeq(value, b + 1, c))
        /\ units_follow(value, c)}

drop_units(value) ==
    LET ends == group_ends(value)
    IN  IF ends = {}
        THEN NaN
        ELSE float(SubSeq(value, 1, CHOOSE c \in ends : TRUE))

\* ------------------------------------------------------- Name Normalizer

Prefix == "Town Of Andover:AHS-NAE1/FEC Bus2"

drop_prefix(variable_name) ==
    IF Len(variable_name) >= 2 /\ variable_name[1] = Prefix
    THEN Tail(variable_name)
    ELSE NaN

\* ---------------------------------------------------------- Table Builder

summary_columns ==
    << <<"MAIN ELECTRIC METER", "Analog Inputs", "Energy", "Main-kWh-Energy (Trend1)">>,
       <<"PANEL DHB ELECTRIC METER", "Analog Inputs", "Energy", "DHB - kWh Total (Trend1)">>,
       <<"PANEL M1 ELECTRIC METER", "Analog Inputs", "Energy", "M1-kWh-Energy (Trend1)">>,
       <<"PANEL DG ELECTRIC METER", "Analog Inputs", "Energy", "DG-kWh-Energy (Trend1)">>,
       <<"PANEL DE-ATS ELECTRIC METER", "Analog Inputs", "Energy", "DE-ATS-Energy-kWh (Trend1)">>,
       <<"PANEL COLLINS ELECTRIC METER", "Analog Inputs", "Energy", "CollinCtr-Energy-kWh (Trend1)">>,
       <<"PANEL DL ELECTRIC METER", "Analog Inputs", "Energy", "DL-Energy-kWh (Trend1)">> >>

summary_labels == <<"Main", "DHB", "M1", "DG", "DE-ATS", "Collins", "DL">>

\* The raw variable name the export gives a column label of this site.
RawName(label) == <<Prefix>> \o label

\* A variable of this site that is no summary column, and two names the
\* prefix pattern does not match (another site; the prefix with no ".").
ExtraName == RawName(<<"PANEL M1 ELECTRIC METER", "X">>)

ForeignName == <<"Town Of Acton:NAE2/FEC Bus1", "MAIN ELECTRIC METER", "X">>

BareName == <<Prefix>>

\* The raw variable names of the model, in text (code point) order, the order
\* groupby and unstack sort strings by.
NameOrder ==
    << ForeignName,
       BareName,
       RawName(summary_columns[1]),
       RawName(summary_columns[6]),
       RawName(summary_columns[5]),
       RawName(summary_columns[4]),
       RawName(summary_columns[2]),
       RawName(summary_columns[7]),
       RawName(summary_columns[3]),
       ExtraName >>

NameRank(n) == CHOOSE i \in 1..Len(NameOrder) : NameOrder[i] = n

\* Text order of two timestamp strings (zero-padded fields, compared field by
\* field in the order they are written: day, month, hour, minute).
TextLess(a, b) == TupleLess(a, b)

\* The strings of S in ascending text order.
RECURSIVE SortTimestamps(_)
SortTimestamps(S) ==
    IF S = {} THEN <<>>
    ELSE LET m == CHOOSE m \in S : \A y \in S : ~TextLess(y, m)
         IN  <<m>> \o SortTimestamps(S \ {m})

\* The timestamps in the order they first occur in the file.
RECURSIVE FirstSeen(_)
FirstSeen(s) ==
    IF s = <<>> THEN <<>>
    ELSE LET r == FirstSeen(SubSeq(s, 1, Len(s) - 1))
         IN  IF s[Len(s)] \in Range(r) THEN r ELSE Append(r, s[Len(s)])

\* The names of S in ascending text order.
RECURSIVE SortNames(_)
SortNames(S) ==
    IF S = {} THEN <<>>
    ELSE LET m == CHOOSE m \in S : \A y \in S : NameRank(m) <= NameRank(y)
         IN  <<m>> \o SortNames(S \ {m})

\* Days of 2020 before the first of each month.
DaysBefore == <<0, 31, 60, 91, 121, 152, 182, 213, 244, 274, 305, 335>>

SecondsPerDay == 24 * 60 * 60

\* pd.to_datetime(ts, dayfirst=True): the first field is the day.
to_datetime(ts) ==
    (DaysBefore[ts[2]] + ts[1] - 1) * SecondsPerDay + ts[3] * 3600 + ts[4] * 60

\* pd.read_csv(..., index_col=[0, 1], converters={'Object Value': drop_units})
\* ['Object Value']: a Series of converted values keyed by (timestamp, name).
read_csv(file) ==
    [i \in 1..Len(file) |->
        [index |-> <<file[i].ts, file[i].name>>, value |-> drop_units(file[i].value)]]

\* GroupBy.last as pandas computes it: the last value of the group that is
\* not null, and null when the group has none.
last(series, k) ==
    LET at == {i \in 1..Len(series) : series[i].index = k /\ ~isnan(series[i].value)}
    IN  IF at = {} THEN NaN ELSE series[SetMax(at)].value

\* Rows left in the order the file first gives them.
RowOrder_Unsorted(series) == FirstSeen([i \in 1..Len(series) |-> series[i].index[1]])

\* The row labels of groupby(...).last() unstacked: the distinct timestamp
\* strings, sorted as strings.
RowOrder(series) == SortTimestamps({series[i].index[1] : i \in 1..Len(series)})

parse(file) ==
    LET series  == read_csv(file)
        keys    == {series[i].index : i \in 1..Len(series)}
        rows    == RowOrder(series)
        names   == SortNames({k[2] : k \in keys})
    IN  [index   |-> [i \in 1..Len(rows) |-> to_datetime(rows[i])],
         columns |-> [j \in 1..Len(names) |-> drop_prefix(names[j])],
         data    |-> [i \in 1..Len(rows) |->
                        [j \in 1..Len(names) |->
                            IF <<rows[i], names[j]>> \in keys
                            THEN last(series, <<rows[i], names[j]>>)
                            ELSE NaN]]]

\* ---------------------------------------------------------- Day Bucketer

\* datetime.time(hour=hour, minute=minute) of "HH:MM".
_string_to_time(time_string) ==
    IF time_string = None THEN None
    ELSE LET colon == CHOOSE i \in 1..Len(time_string) : time_string[i] = ":"
         IN  << IntOf(SubSeq(time_string, 1, colon - 1)),
                IntOf(SubSeq(time_string, colon + 1, Len(time_string))) >>

\* datetime.timedelta(hours=time.hour, minutes=time.minute), in seconds.
_timedelta_since_midnight(time) == time[1] * 3600 + time[2] * 60

\* DatetimeIndex.date: the calendar day of each timestamp.
date(dt) == dt \div SecondsPerDay

\* The time of day of a timestamp, in seconds since midnight.
time_of_day(dt) == dt % SecondsPerDay

\* The night branch shifting by the end offset instead of the midpoint.
night_shift_ByEnd(start_timedelta, end_timedelta) == end_timedelta

\* 0.5 * (start_timedelta + end_timedelta), line 108.
night_shift(start_timedelta, end_timedelta) == (start_timedelta + end_timedelta) \div 2

\* The start-only branch returning the unshifted dates.
day_shift_None(start_timedelta) == 0

\* The offset of line 99.
day_shift(start_timedelta) == start_timedelta

\* group_key on the index of df; every branch but the one that raises
\* (start_time None with end_time given: _timedelta_since_midnight(None)).
group_key(index, st, et) ==
    IF st = None /\ et = None
    THEN [i \in 1..Len(index) |-> date(index[i])]
    ELSE IF st # None /\ et = None
    THEN [i \in 1..Len(index) |->
            date(index[i] - day_shift(_timedelta_since_midnight(st)))]
    ELSE LET start_timedelta == _timedelta_since_midnight(st)
             end_timedelta   == _timedelta_since_midnight(et)
         IN  IF start_timedelta < end_timedelta
             THEN [i \in 1..Len(index) |-> date(index[i])]
             ELSE [i \in 1..Len(index) |->
                     date(index[i] - night_shift(start_timedelta, end_timedelta))]

\* ------------------------------------------------------------- Summarizer

\* The sub-sequence of s at the positions of P, in order.
RECURSIVE Take(_, _)
Take(s, P) ==
    IF P = {} THEN <<>>
    ELSE <<s[SetMin(P)]>> \o Take(s, P \ {SetMin(P)})

\* Whether a time of day t lies between start and end, both ends excluded
\* or included as the flags say; a start after the end wraps over midnight.
between(t, s, e, include_start, include_end) ==
    LET lo == IF include_start THEN s <= t ELSE s < t
        hi == IF include_end THEN t <= e ELSE t < e
    IN  IF s <= e THEN lo /\ hi ELSE lo \/ hi

\* The filter with the end of the window excluded.
in_window_EndExclusive(t, s, e) == between(t, s, e, TRUE, FALSE)

\* DatetimeIndex.indexer_between_time(start_time, end_time) with its
\* defaults include_start=True, include_end=True.
in_window(t, s, e) == between(t, s, e, TRUE, TRUE)

indexer_between_time(index, st, et) ==
    {i \in 1..Len(index) :
        in_window(time_of_day(index[i]),
                  _timedelta_since_midnight(st), _timedelta_since_midnight(et))}

\* df.iloc[rows, :]
iloc(frame, rows) ==
    [index |-> Take(frame.index, rows), columns |-> frame.columns,
     data |-> Take(frame.data, rows)]

\* The check of line 62 dropped.
end_without_start_Unchecked(st, et) == FALSE

\* The condition of line 62.
end_without_start(st, et) == et # None /\ st = None

\* Missing columns tolerated (no KeyError).
missing_columns_Ignored(frame) == {}

\* The summary columns df[summary_columns] does not find.
missing_columns(frame) ==
    {j \in 1..Len(summary_columns) : summary_columns[j] \notin Range(frame.columns)}

\* A zero reading kept as a reading.
replace_Kept(v) == v

\* replace(to_replace=0, value=np.nan) on one cell.
replace(v) == IF v = Float(0) THEN NaN ELSE v

\* df[summary_columns].replace(to_replace=0, value=np.nan); a missing column
\* (reached only where the KeyError is not raised) reads as null.
select(frame) ==
    [index |-> frame.index, columns |-> summary_columns,
     data |-> [i \in 1..Len(frame.index) |->
        [j \in 1..Len(summary_columns) |->
            IF summary_columns[j] \in Range(frame.columns)
            THEN replace(frame.data[i][CHOOSE c \in 1..Len(frame.columns) :
                                            frame.columns[c] = summary_columns[j]])
            ELSE NaN]]]

\* The readings of column j in the rows grouped under day d that are not null.
readings(frame, by, d, j) ==
    {frame.data[i][j][1] : i \in {r \in 1..Len(by) : by[r] = d /\ ~isnan(frame.data[r][j])}}

\* The days of S in ascending order.
RECURSIVE SortDays(_)
SortDays(S) ==
    IF S = {} THEN <<>>
    ELSE <<SetMin(S)>> \o SortDays(S \ {SetMin(S)})

\* grouped.max() - grouped.min() for one group and column: max and min skip
\* nulls and are null for a group with none.
energy(frame, by, d, j) ==
    LET rs == readings(frame, by, d, j)
    IN  IF rs = {} THEN NaN ELSE Float(SetMax(rs) - SetMin(rs))

\* The dollar columns put before the kWh columns.
concat_DollarsFirst(daily_energy, daily_dollars) ==
    [index |-> daily_energy.index,
     columns |-> daily_dollars.columns \o daily_energy.columns,
     data |-> [i \in 1..Len(daily_energy.index) |->
                 daily_dollars.data[i] \o daily_energy.data[i]]]

\* pd.concat((daily_energy, daily_dollars), axis=1)
concat(daily_energy, daily_dollars) ==
    [index |-> daily_energy.index,
     columns |-> daily_energy.columns \o daily_dollars.columns,
     data |-> [i \in 1..Len(daily_energy.index) |->
                 daily_energy.data[i] \o daily_dollars.data[i]]]

\* Lines 82-90: the summary of the selected columns grouped by day.
daily(frame, by, cost) ==
    LET days == SortDays(Range(by))
        daily_energy ==
            [index |-> days,
             columns |-> [j \in 1..Len(summary_labels) |-> <<summary_labels[j], " (kWh)">>],
             data |-> [i \in 1..Len(days) |->
                [j \in 1..Len(summary_columns) |-> energy(frame, by, days[i], j)]]]
        daily_dollars ==
            [index |-> days,
             columns |-> [j \in 1..Len(summary_labels) |-> <<summary_labels[j], " ($)">>],
             data |-> [i \in 1..Len(days) |->
                [j \in 1..Len(summary_columns) |->
                    IF isnan(daily_energy.data[i][j]) THEN NaN
                    ELSE Float(daily_energy.data[i][j][1] * cost)]]]
    IN  concat(daily_energy, daily_dollars)

\* ---------------------------------------------------------- Output Writer

header(st, et) ==
    IF et = None
    THEN IF st = None
         THEN <<"Usage statistics from all hours of each day">>
         ELSE <<"Usage statistics start at %s each day", st>>
    ELSE <<"Usage statistics from between %s and %s each day", st, et>>

\* What save_df writes to the output file, in order.
save_df(table, summary, st, et) ==
    IF summary
    THEN <<header(st, et), "\n", table>>
    ELSE <<table>>

\* ----------------------------------------------------------- the script

NoError == "none"

NoFrame == [index |-> <<>>, columns |-> <<>>, data |-> <<>>]

\* The state the script starts in, given its input file and arguments.
Start(file, a) ==
    /\ pc = "main157"
    /\ input_file = file
    /\ args = a
    /\ transformed = NoFrame
    /\ start_time = None
    /\ end_time = None
    /\ df = NoFrame
    /\ subset = NoFrame
    /\ key = <<>>
    /\ ret = NoFrame
    /\ raised = NoError
    /\ output = <<>>

\* Lines 156-162: parse the input file and the two times.
Parse ==
    /\ pc = "main157"
    /\ transformed' = parse(input_file)
    /\ start_time' = _string_to_time(args.start_time)
    /\ end_time' = _string_to_time(args.end_time)
    /\ pc' = IF args.summarize THEN "summarize62" ELSE "main165"
    /\ UNCHANGED <<input_file, args, df, subset, key, ret, raised, output>>

\* Lines 62-65 of summarize, called at line 163 with df = transformed.
SummarizeFilter ==
    /\ pc = "summarize62"
    /\ IF end_without_start(start_time, end_time)
       THEN /\ raised' = "ValueError"
            /\ pc' = "raised"
            /\ df' = transformed
       ELSE /\ df' = IF start_time # None /\ end_time # None
                     THEN iloc(transformed,
                               indexer_between_time(transformed.index, start_time, end_time))
                     ELSE transformed
            /\ pc' = "summarize77"
            /\ UNCHANGED raised
    /\ UNCHANGED <<input_file, args, transformed, start_time, end_time,
                   subset, key, ret, output>>

\* Lines 67-80: the summary columns, zero readings made null.
SummarizeSelect ==
    /\ pc = "summarize77"
    /\ IF missing_columns(df) # {}
       THEN /\ raised' = "KeyError"
            /\ pc' = "raised"
            /\ UNCHANGED subset
       ELSE /\ subset' = select(df)
            /\ pc' = "summarize82"
            /\ UNCHANGED raised
    /\ UNCHANGED <<input_file, args, transformed, start_time, end_time,
                   df, key, ret, output>>

\* Lines 82-90: group by day and take each meter's energy and cost.
SummarizeGroup ==
    /\ pc = "summarize82"
    /\ IF start_time = None /\ end_time # None
       THEN /\ raised' = "AttributeError"
            /\ pc' = "raised"
            /\ UNCHANGED <<key, ret>>
       ELSE /\ key' = group_key(subset.index, start_time, end_time)
            /\ ret' = daily(subset, key', args.cost)
            /\ pc' = "summarize90"
            /\ UNCHANGED raised
    /\ UNCHANGED <<input_file, args, transformed, start_time, end_time,
                   df, subset, output>>

\* Line 163: the summary replaces the Measurement Table.
SummarizeReturn ==
    /\ pc = "summarize90"
    /\ transformed' = ret
    /\ pc' = "main165"
    /\ UNCHANGED <<input_file, args, start_time, end_time,
                   df, subset, key, ret, raised, output>>

\* Line 165.
SaveDf ==
    /\ pc = "main165"
    /\ output' = save_df(transformed, args.summarize, args.start_time, args.end_time)
    /\ pc' = "done"
    /\ UNCHANGED <<input_file, args, transformed, start_time, end_time,
                   df, subset, key, ret, raised>>

Next ==
    \/ Parse
    \/ SummarizeFilter
    \/ SummarizeSelect
    \/ SummarizeGroup
    \/ SummarizeReturn
    \/ SaveDf

\* ------------------------------------------------------------- inputs

\* "HH:MM"
TimeString(h, m) ==
    <<Digits[(h \div 10) + 1], Digits[(h % 10) + 1], ":",
      Digits[(m \div 10) + 1], Digits[(m % 10) + 1]>>

\* The raw names of the seven summary columns, in the order of the list.
MeterNames == [j \in 1..Len(summary_columns) |-> RawName(summary_columns[j])]

\* s without its j-th element.
Without(s, j) == SubSeq(s, 1, j - 1) \o SubSeq(s, j + 1, Len(s))

\* A synthetic export: one row per timestamp of tss and name of names, the
\* value of row i of name j being the profile's entry (i + j) mod its length.
Export(tss, names, prof) ==
    [k \in 1..(Len(tss) * Len(names)) |->
        LET i == ((k - 1) \div Len(names)) + 1
            j == ((k - 1) % Len(names)) + 1
        IN  [ts |-> tss[i], name |-> names[j],
             value |-> prof[((i + j) % Len(prof)) + 1]]]

Arguments(summary, st, et, c) ==
    [summarize |-> summary, start_time |-> st, end_time |-> et, cost |-> c]

\* Value strings: "", "0", "100 kWh", "150", "0.0 kWh".
Readings ==
    { <<>>, <<"0">>, <<"1", "0", "0", " ", "k", "W", "h">>, <<"1", "5", "0">>,
      <<"0", ".", "0", " ", "k", "W", "h">> }

\* Costs per kWh, in hundredths of a dollar: the default .16, and .20.
Costs == {16, 20}

Windows == {None, TimeString(6, 0), TimeString(18, 0), TimeString(22, 0)}

\* Timestamp strings of 2 and 3 January around the window edges.
Instants ==
    << <<2, 1, 5, 30>>, <<2, 1, 6, 0>>, <<2, 1, 12, 0>>, <<2, 1, 18, 0>>,
       <<2, 1, 23, 30>>, <<3, 1, 1, 0>>, <<3, 1, 6, 0>>, <<3, 1, 12, 0>> >>

\* The non-empty sub-sequences of Instants of at most three timestamps.
InstantLists ==
    {Take(Instants, P) : P \in {Q \in SUBSET (1..Len(Instants)) : Cardinality(Q) \in 1..3}}

\* Exports of all seven meters over many sets of timestamps and every window.
InitTimes ==
    \E tss \in InstantLists, st \in Windows, et \in Windows :
    \E prof \in { << <<"1", "0", "0">>, <<"1", "5", "0">>, <<"0">> >> } :
        Start(Export(tss, MeterNames, prof), Arguments(TRUE, st, et, 16))

\* Exports of all seven meters over every profile of three readings.
InitReadings ==
    \E tss \in { <<Instants[2], Instants[3], Instants[4]>>,
                 <<Instants[3], Instants[5], Instants[6]>>,
                 <<Instants[1], Instants[8]>> } :
    \E prof \in [1..3 -> Readings], c \in Costs :
    \E w \in { <<None, None>>, <<TimeString(6, 0), None>>,
               <<TimeString(22, 0), TimeString(6, 0)>>,
               <<TimeString(6, 0), TimeString(18, 0)>> } :
        Start(Export(tss, MeterNames, prof), Arguments(TRUE, w[1], w[2], c))

\* Exports that lack one meter, hold all seven, or hold more names, with and
\* without -s and with every choice of --start and --end.
InitColumns ==
    \E names \in {Without(MeterNames, j) : j \in 1..Len(MeterNames)}
                 \cup {MeterNames, <<ExtraName, ForeignName>> \o MeterNames,
                       <<BareName>> \o Without(MeterNames, 1)} :
    \E summary \in BOOLEAN, st \in Windows, et \in Windows :
        Start(Export(<<Instants[3], Instants[6]>>, names,
                     << <<"1", "0", "0">>, <<"1", "5", "0">> >>),
              Arguments(summary, st, et, 16))

Init == InitTimes \/ InitReadings \/ InitColumns

Spec == Init /\ [][Next]_vars

\* The script run without -s: parse, then save_df.
NextParse ==
    \/ Parse
    \/ SaveDf

\* "01/02/2020 10:00", "02/01/2020 10:00" and "15/01/2020 10:00": their text
\* order is not their date order (1 February, 2 January, 15 January).
RowTimestamps == { <<1, 2, 10, 0>>, <<2, 1, 10, 0>>, <<15, 1, 10, 0>> }

\* Value strings "5", "7 k" and "a".
RowValues == { <<"5">>, <<"7", " ", "k">>, <<"a">> }

RawRows ==
    [ts : RowTimestamps, name : {MeterNames[1], ForeignName}, value : RowValues]

\* Every export of 1 to MaxRows raw rows, duplicates of a key included.
InitParse ==
    \E n \in 1..MaxRows : \E file \in [1..n -> RawRows] :
        Start(file, Arguments(FALSE, None, None, 16))

SpecParse == InitParse /\ [][NextParse]_vars

\* The characters value strings are drawn from: digits, the point, the space,
\* a letter (the exponent's) and a sign.
Alphabet == {"0", "1", ".", " ", "e", "-"}

\* Every export of one row whose value is a string of at most MaxLen characters.
InitUnits ==
    \E n \in 0..MaxLen : \E value \in [1..n -> Alphabet] :
        Start(<< [ts |-> <<2, 1, 10, 0>>, name |-> MeterNames[1], value |-> value] >>,
              Arguments(FALSE, None, None, 16))

SpecUnits == InitUnits /\ [][NextParse]_vars

\* Times of day the windows of the Day Bucketer are drawn from.
KeyTimes == {TimeString(h, m) : h \in {0, 5, 6, 18, 22, 23}, m \in {0, 30}}

\* Exports of all seven meters at one timestamp, any half hour of NumDays
\* days from 2 January on, summarized with a start time and, or not, an end.
InitKeys ==
    \E d \in 2..(1 + NumDays), h \in 0..23, m \in {0, 30} :
    \E st \in KeyTimes, et \in KeyTimes \cup {None} :
        Start(Export(<< <<d, 1, h, m>> >>, MeterNames, << <<"1", "0", "0">> >>),
              Arguments(TRUE, st, et, 16))

SpecKeys == InitKeys /\ [][Next]_vars

\* ------------------------------------------------- properties of the script

\* The offset of an "HH:MM" time since midnight, in seconds.
Offset(t) == t[1] * 3600 + t[2] * 60

\* The cell of column label in row i of a table (null when it has no such column).
CellAt(frame, i, label) ==
    IF label \in Range(frame.columns)
    THEN frame.data[i][CHOOSE c \in 1..Len(frame.columns) : frame.columns[c] = label]
    ELSE NaN

EndOnly == args.end_time # None /\ args.start_time = None

\* C2, as claimed: in no run in which --end is supplied and --start is not,
\* with or without -s, is the output file written (save_df is never reached
\* with end_time set and start_time unset).
C2_EndOnlyNeverSaved == EndOnly => pc # "done" /\ output = <<>>

\* C2, amended: in every run with -s in which --end is supplied and --start
\* is not, summarize raises the configuration error (ValueError) as its first
\* step, the script never reaches save_df and the output file is never
\* written.
C2_EndOnlySummaryRaises ==
    (args.summarize /\ EndOnly) =>
        /\ output = <<>>
        /\ pc \in {"main157", "summarize62", "raised"}
        /\ pc = "raised" => raised = "ValueError"

\* A run with -s and --end alone, stopped by the ValueError after parse.
C2_Witness ==
    /\ args.summarize /\ EndOnly
    /\ pc = "raised" /\ raised = "ValueError" /\ output = <<>>
    /\ transformed # NoFrame

\* The readings of summary column j that take part in bucket d: those of the
\* rows of df grouped under d that are neither missing nor exactly 0.
Counted(d, j) ==
    {CellAt(df, i, summary_columns[j])[1] :
        i \in {r \in 1..Len(df.index) :
                /\ key[r] = d
                /\ CellAt(df, r, summary_columns[j]) # NaN
                /\ CellAt(df, r, summary_columns[j]) # Float(0)}}

\* C3: when summarize has computed its result, for every bucket (row k of the
\* result) and each of the 7 meters j, the kWh cell is the largest less the
\* smallest of the bucket's readings that are neither missing nor 0, missing
\* when there is none, and the dollar cell is that kWh value times cost
\* (missing when the kWh value is missing).
C3_EnergyIsMaxMinusMin ==
    pc = "summarize90" =>
        \A k \in 1..Len(ret.index) : \A j \in 1..7 :
            LET rs  == Counted(ret.index[k], j)
                kwh == ret.data[k][j]
                usd == ret.data[k][7 + j]
            IN  IF rs = {}
                THEN kwh = NaN /\ usd = NaN
                ELSE /\ kwh = Float(SetMax(rs) - SetMin(rs))
                     /\ usd = Float((SetMax(rs) - SetMin(rs)) * args.cost)

\* A bucket with readings 100, 0 and 150 of one meter, whose energy is 50.
C3_Witness ==
    /\ pc = "summarize90"
    /\ \E k \in 1..Len(ret.index) : \E j \in 1..7 :
        /\ Counted(ret.index[k], j) = {100 * Unit, 150 * Unit}
        /\ \E r \in 1..Len(df.index) :
            key[r] = ret.index[k] /\ CellAt(df, r, summary_columns[j]) = Float(0)
        /\ ret.data[k][j] = Float(50 * Unit)
        /\ ret.data[k][7 + j] = Float(50 * Unit * args.cost)

BothGiven == start_time # None /\ end_time # None

\* Whether time of day t is in the window with its end excluded.
HalfOpen(t) == Offset(start_time) <= t /\ t < Offset(end_time)

\* Whether time of day t is in the window with both ends included, the window
\* running over midnight when its start is after its end.
Closed(t) ==
    IF Offset(start_time) <= Offset(end_time)
    THEN Offset(start_time) <= t /\ t <= Offset(end_time)
    ELSE Offset(start_time) <= t \/ t <= Offset(end_time)

\* The timestamps of the Measurement Table at the rows of P, in order.
RowsAt(P) == Take(transformed.index, P)

\* C5, as claimed: with both times given, the rows that take part are exactly
\* those with start_time <= t < end_time; a row at end_time is excluded.
C5_WindowHalfOpen ==
    (pc = "summarize77" /\ BothGiven) => df.index =
            RowsAt({i \in 1..Len(transformed.index) :
                        HalfOpen(transformed.index[i] % SecondsPerDay)})

\* C5, amended: with both times given, the rows that take part are exactly
\* those with start_time <= t <= end_time (both ends included) when
\* start_time <= end_time, and those with t >= start_time or t <= end_time
\* when start_time is after end_time (a window over midnight); a row at
\* end_time is included.
C5_WindowClosed ==
    (pc = "summarize77" /\ BothGiven) =>
        /\ df.index =
            RowsAt({i \in 1..Len(transformed.index) :
                        Closed(transformed.index[i] % SecondsPerDay)})
        /\ df.columns = transformed.columns
        /\ \A i \in 1..Len(df.index) : \E r \in 1..Len(transformed.index) :
            transformed.index[r] = df.index[i] /\ transformed.data[r] = df.data[i]

\* A row at end_time taking part while another row is filtered out.
C5_Witness ==
    /\ pc = "summarize77" /\ BothGiven
    /\ \E i \in 1..Len(df.index) : df.index[i] % SecondsPerDay = Offset(end_time)
    /\ Len(df.index) < Len(transformed.index)

\* Whether the export lacks one of the 7 meter columns.
LacksMeter ==
    \E j \in 1..7 : \A i \in 1..Len(input_file) :
        input_file[i].name # <<Prefix>> \o summary_columns[j]

\* C9: in summary mode, when the Measurement Table lacks one of the 7 meter
\* columns, the run ends with an error raised inside summarize: it never gets
\* past the column selection, save_df is never reached and the output file is
\* never written.
C9_MissingColumnIsFatal ==
    (args.summarize /\ LacksMeter) =>
        /\ output = <<>>
        /\ pc \in {"main157", "summarize62", "summarize77", "raised"}
        /\ pc = "raised" => raised \in {"KeyError", "ValueError"}

\* A summary run on an export without the Main meter, stopped by the KeyError.
C9_Witness ==
    /\ args.summarize /\ LacksMeter
    /\ pc = "raised" /\ raised = "KeyError" /\ output = <<>>
    /\ Len(transformed.columns) = 7 /\ NaN \in Range(transformed.columns)

\* C10: the Summary Table summarize returns has one row for each distinct
\* bucket key of the rows that take part, no key twice and none left out, and
\* its 14 columns are the 7 labels with " (kWh)" and then the 7 labels with
\* " ($)", in the fixed order.
C10_OneRowPerDay ==
    pc = "summarize90" =>
        /\ Len(key) = Len(df.index)
        /\ Range(ret.index) = Range(key)
        /\ \A a, b \in 1..Len(ret.index) : a # b => ret.index[a] # ret.index[b]
        /\ Len(ret.data) = Len(ret.index)
        /\ \A k \in 1..Len(ret.data) : Len(ret.data[k]) = 14
        /\ ret.columns =
            << <<"Main", " (kWh)">>, <<"DHB", " (kWh)">>, <<"M1", " (kWh)">>,
               <<"DG", " (kWh)">>, <<"DE-ATS", " (kWh)">>, <<"Collins", " (kWh)">>,
               <<"DL", " (kWh)">>,
               <<"Main", " ($)">>, <<"DHB", " ($)">>, <<"M1", " ($)">>,
               <<"DG", " ($)">>, <<"DE-ATS", " ($)">>, <<"Collins", " ($)">>,
               <<"DL", " ($)">> >>

\* Three rows over two buckets: two rows, one of them shared.
C10_Witness ==
    /\ pc = "summarize90"
    /\ Len(df.index) = 3
    /\ Len(ret.index) = 2
    /\ Len(ret.columns) = 14

\* ------------------------------------------------ properties of parse

\* The rows of the export with the key (ts, name).
RowsOf(ts, name) ==
    {i \in 1..Len(input_file) : input_file[i].ts = ts /\ input_file[i].name = name}

\* The label parse gives a raw name of the exports: the name without the
\* site's prefix, or null.
LabelOf(name) == IF name[1] = Prefix THEN Tail(name) ELSE NaN

\* The datetime of a timestamp string read day first: seconds since
\* 2020-01-01 00:00.
Datetime(ts) ==
    (DaysBefore[ts[2]] + (ts[1] - 1)) * 86400 + ts[3] * 3600 + ts[4] * 60

\* The Measurement Table's cell for the key (ts, name).
TableCell(ts, name) ==
    CellAt(transformed, CHOOSE i \in 1..Len(transformed.index) :
                            transformed.index[i] = Datetime(ts), LabelOf(name))

\* C1, as claimed: for every key that occurs in more than one raw row, the
\* Measurement Table holds the normalized value of the last such row, also
\* when that value is the missing-value marker.
C1_LastRowWins ==
    pc # "main157" =>
        \A i \in 1..Len(input_file) :
            LET rows == RowsOf(input_file[i].ts, input_file[i].name)
            IN  Cardinality(rows) > 1 =>
                    TableCell(input_file[i].ts, input_file[i].name)
                        = drop_units(input_file[SetMax(rows)].value)

\* C6, as claimed: the rows of the Measurement Table are in ascending order of
\* their parsed (day-first) timestamps.
C6_AscendingDatetimes ==
    pc # "main157" =>
        \A i \in 1..(Len(transformed.index) - 1) :
            transformed.index[i] <= transformed.index[i + 1]

\* C6, amended: the Measurement Table has one row for each distinct timestamp
\* string of the file, and its rows are in ascending text order of those
\* strings ("01/02/2020" before "02/01/2020"), not sorted again after the
\* strings are parsed; they are in ascending datetime order only where the
\* text order of the strings agrees with their date order.
C6_AscendingText ==
    pc # "main157" =>
        LET strings == {input_file[i].ts : i \in 1..Len(input_file)}
        IN  /\ Len(transformed.index) = Cardinality(strings)
            /\ \A i \in 1..Len(transformed.index) :
                \E a \in strings : Datetime(a) = transformed.index[i]
            /\ \A i \in 1..(Len(transformed.index) - 1) :
                \E a, b \in strings :
                    /\ Datetime(a) = transformed.index[i]
                    /\ Datetime(b) = transformed.index[i + 1]
                    /\ \/ a[1] < b[1]
                       \/ a[1] = b[1] /\ a[2] < b[2]
                       \/ a[1] = b[1] /\ a[2] = b[2] /\ a[3] < b[3]
                       \/ a[1] = b[1] /\ a[2] = b[2] /\ a[3] = b[3] /\ a[4] < b[4]

\* A table whose first row lies after its second in time, the file giving the
\* rows in date order.
C6_Witness ==
    /\ pc = "done"
    /\ Len(transformed.index) = 3
    /\ transformed.index[1] > transformed.index[2]
    /\ input_file[1].ts = <<2, 1, 10, 0>>
    /\ input_file[2].ts = <<15, 1, 10, 0>>
    /\ input_file[3].ts = <<1, 2, 10, 0>>

\* ------------------------------------------- properties of drop_units

DigitChars == {"0", "1", "2", "3", "4", "5", "6", "7", "8", "9"}

LetterChars ==
    {"a", "b", "c", "d", "e", "f", "g", "h", "i", "j", "k", "l", "m", "n", "o",
     "p", "q", "r", "s", "t", "u", "v", "w", "x", "y", "z", "A", "B", "C", "D",
     "E", "F", "G", "H", "I", "J", "K", "L", "M", "N", "O", "P", "Q", "R", "S",
     "T", "U", "V", "W", "X", "Y", "Z"}

\* The length of the longest prefix of s made of digits and points.
NumberLen(s) ==
    SetMax({n \in 0..Len(s) : \A i \in 1..n : s[i] \in DigitChars \cup {"."}})

\* Whether the rest of s after its first n characters is an optional single
\* space and then letters only.
UnitsAfter(s, n) ==
    LET from == IF n < Len(s) /\ s[n + 1] = " " THEN n + 2 ELSE n + 1
    IN  \A i \in from..Len(s) : s[i] \in LetterChars

\* A number as the claim words it: digits with at most one point among them
\* and at least one digit overall.
NumberAsClaimed(s) ==
    /\ Cardinality({i \in 1..Len(s) : s[i] = "."}) <= 1
    /\ \E i \in 1..Len(s) : s[i] \in DigitChars

\* A number as the pattern has it: as claimed, and ending in a digit.
NumberEndingInDigit(s) ==
    /\ NumberAsClaimed(s)
    /\ s[Len(s)] \in DigitChars

\* The value of a number: each digit times its place, places counted from the
\* point (or from the end, with no point), in units of 10^-MaxLen.
RECURSIVE PlaceSum(_, _, _)
PlaceSum(s, i, p) ==
    IF i > Len(s) THEN 0
    ELSE PlaceSum(s, i + 1, p)
         + (IF s[i] = "." THEN 0
            ELSE ((CHOOSE v \in 0..9 : Digits[v + 1] = s[i])
                  * (IF i < p THEN Unit * Pow10(p - 1 - i) ELSE Pow10(MaxLen - (i - p)))))

ValueOf(s) ==
    PlaceSum(s, 1, IF \E i \in 1..Len(s) : s[i] = "."
                   THEN CHOOSE i \in 1..Len(s) : s[i] = "."
                   ELSE Len(s) + 1)

\* The value string of the one-row export and what parse made of it.
TheValue == input_file[1].value

TheNumber == SubSeq(TheValue, 1, NumberLen(TheValue))

Normalized == transformed.data[1][1]

\* C8, as claimed: drop_units never raises and returns the number as a float
\* exactly when the string is a number (optional leading digits, optional
\* decimal point, at least one digit overall) followed by an optional single
\* space and optional letters, and the missing-value marker otherwise.
C8_NumberAsClaimed ==
    pc # "main157" =>
        /\ raised = NoError
        /\ Normalized =
            IF NumberAsClaimed(TheNumber) /\ UnitsAfter(TheValue, NumberLen(TheValue))
            THEN Float(ValueOf(TheNumber))
            ELSE NaN

\* C8, amended: drop_units never raises and returns the number as a float
\* exactly when the string is a number (optional leading digits, optional
\* decimal point, then at least one digit: the number ends in a digit, so
\* "12." is not one) followed by an optional single space and optional
\* letters, and the missing-value marker otherwise.
C8_NumberEndsInDigit ==
    pc # "main157" =>
        /\ raised = NoError
        /\ Normalized =
            IF NumberEndingInDigit(TheNumber) /\ UnitsAfter(TheValue, NumberLen(TheValue))
            THEN Float(ValueOf(TheNumber))
            ELSE NaN

\* ".1 e" normalized to 0.1.
C8_Witness ==
    /\ pc = "done"
    /\ TheValue = <<".", "1", " ", "e">>
    /\ Normalized = Float(Unit \div 10)

\* -------------------------------------------- properties of group_key

\* C4: with both times given and the start offset not less than the end
\* offset, every timestamp that takes part gets the date of (timestamp minus
\* half the sum of the two offsets), which is its own day D when its time of
\* day is at or after start_time and the day before when it is earlier (at or
\* before end_time): the night from start_time on day D to end_time on day
\* D+1 is one bucket, D.
C4_NightIsOneBucket ==
    (pc = "summarize90" /\ BothGiven /\ Offset(start_time) >= Offset(end_time)) =>
        \A i \in 1..Len(df.index) :
            LET t   == df.index[i]
                tod == t % 86400
                day == t \div 86400
            IN  /\ key[i] = (t - ((Offset(start_time) + Offset(end_time)) \div 2)) \div 86400
                /\ tod >= Offset(start_time) => key[i] = day
                /\ tod < Offset(start_time) => key[i] = day - 1

\* 22:00-06:00: the reading of 3 January 01:00 is in the bucket of 2 January.
C4_Witness ==
    /\ pc = "summarize90"
    /\ start_time = <<22, 0>> /\ end_time = <<6, 0>>
    /\ df.index = <<2 * 86400 + 3600>>
    /\ key = <<1>>

\* C7: with start_time given and end_time not, no row is filtered out and
\* every timestamp gets the date of (timestamp minus start_time's offset):
\* the day before its own when its time of day is before start_time, its own
\* day otherwise.
C7_DayBeginsAtStart ==
    (pc = "summarize90" /\ start_time # None /\ end_time = None) =>
        /\ df = transformed
        /\ Len(key) = Len(transformed.index)
        /\ \A i \in 1..Len(transformed.index) :
            LET t   == transformed.index[i]
                tod == t % 86400
                day == t \div 86400
            IN  /\ key[i] = (t - Offset(start_time)) \div 86400
                /\ tod < Offset(start_time) => key[i] = day - 1
                /\ tod >= Offset(start_time) => key[i] = day

\* Start 06:00: the reading of 2 January 05:30 is in the bucket of 1 January.
C7_Witness ==
    /\ pc = "summarize90"
    /\ start_time = <<6, 0>> /\ end_time = None
    /\ transformed.index = <<86400 + 5 * 3600 + 30 * 60>>
    /\ key = <<0>>

=============================================================================
